---- MODULE Spec2Model ----
(***************************************************************************)
(* Model of the New Relic key facade of src/main.go.                       *)
(*                                                                         *)
(* src/main.go holds two copies of package main.  Lines 1-157 are the      *)
(* first revision: one route, createApiKey reads the credential from the   *)
(* environment on every request.  Lines 159-416 are the second revision:   *)
(* main reads the credential once into Server.apiKey, createApiKey uses    *)
(* it, and deleteApiKey is added.  `revision` says which program runs.     *)
(*                                                                         *)
(* Every request is served by its own goroutine; the steps of concurrent   *)
(* handlers interleave at the points where a handler reads shared state or *)
(* blocks on the upstream call.                                            *)
(***************************************************************************)
EXTENDS Integers, Sequences, FiniteSets, TLC

VARIABLES revision, mainpc, env, s, req

vars == <<revision, mainpc, env, s, req>>

\* Number of requests the HTTP server dispatches in one run.
MaxRequests == 2

Slots == 1..MaxRequests

\* net/http status codes used by the handlers.
StatusOK == 200
StatusBadRequest == 400
StatusUnauthorized == 401
StatusInternalServerError == 500

newRelicGraphQLEndpoint == "https://api.eu.newrelic.com/graphql"

\* Values NEW_RELIC_API_KEY can have ("" is unset or empty).
EnvValues == {"", "k1", "k2"}

-----------------------------------------------------------------------------
(* JSON request bodies and their decoding (encoding/json).  The body is     *)
(* drawn when the handler reads r.Body.                                     *)

JAbsent == [t |-> "absent", n |-> 0, s |-> <<>>]
JNum(n) == [t |-> "number", n |-> n, s |-> <<>>]
JStr(str) == [t |-> "string", n |-> 0, s |-> str]

\* A string field accepts a JSON string; a missing field keeps the zero value.
StringField(j) == IF j.t = "string" THEN j.s ELSE <<>>
IntField(j) == IF j.t = "number" THEN j.n ELSE 0
StringFieldErr(j) == j.t = "number"
IntFieldErr(j) == j.t = "string"

\* Bodies sent to /create-insert-key: not JSON at all, the empty object, an
\* object whose account_id has the wrong type, and a complete request.
CreateBodies ==
  { [syntaxOk |-> FALSE, account_id |-> JAbsent, name |-> JAbsent,
     notes |-> JAbsent, ingestType |-> JAbsent],
    [syntaxOk |-> TRUE, account_id |-> JAbsent, name |-> JAbsent,
     notes |-> JAbsent, ingestType |-> JAbsent],
    [syntaxOk |-> TRUE, account_id |-> JStr(<<"7">>), name |-> JStr(<<"n">>),
     notes |-> JAbsent, ingestType |-> JStr(<<"BROWSER">>)],
    [syntaxOk |-> TRUE, account_id |-> JNum(7), name |-> JStr(<<"n">>),
     notes |-> JStr(<<"t">>), ingestType |-> JStr(<<"BROWSER">>)] }

\* Key ids, as sequences of characters; the second holds a double quote.
KeyIds == { <<"k", "1">>, <<"k", "\"">> }

\* Bodies sent to /delete-key: not JSON at all, an object without id, and
\* an object with each id.
DeleteBodies ==
  { [syntaxOk |-> FALSE, id |-> JAbsent],
    [syntaxOk |-> TRUE, id |-> JAbsent] }
  \cup { [syntaxOk |-> TRUE, id |-> JStr(k)] : k \in KeyIds }

\* json.NewDecoder(r.Body).Decode(&request) for InsertKeyRequest.
InsertKeyRequest(body) ==
  IF ~body.syntaxOk
  THEN [err |-> TRUE, AccountID |-> 0, Name |-> <<>>, Notes |-> <<>>,
        IngestType |-> <<>>]
  ELSE [err |-> \/ IntFieldErr(body.account_id)
                \/ StringFieldErr(body.name)
                \/ StringFieldErr(body.notes)
                \/ StringFieldErr(body.ingestType),
        AccountID |-> IntField(body.account_id),
        Name |-> StringField(body.name),
        Notes |-> StringField(body.notes),
        IngestType |-> StringField(body.ingestType)]

\* json.NewDecoder(r.Body).Decode(&request) for DeleteKeyRequest.
DeleteKeyRequest(body) ==
  IF ~body.syntaxOk
  THEN [err |-> TRUE, ID |-> <<>>]
  ELSE [err |-> StringFieldErr(body.id), ID |-> StringField(body.id)]

-----------------------------------------------------------------------------
(* Mutation strings (fmt.Sprintf over the fixed templates).                *)

\* The create template with its four verbs filled in.
CreateMutation(request) ==
  << "mutation{apiAccessCreateKeys(keys:{ingest:{accountId:",
     request.AccountID,
     "ingestType:", request.IngestType,
     "name:\"", request.Name,
     "\"notes:\"", request.Notes,
     "\"}}){createdKeys{...}errors{...}}}" >>

RECURSIVE Escape(_)
\* The escaping of strconv.Quote: a double quote and a backslash get a backslash.
Escape(str) ==
  IF str = <<>> THEN <<>>
  ELSE (IF Head(str) \in {"\"", "\\"} THEN <<"\\", Head(str)>> ELSE <<Head(str)>>)
       \o Escape(Tail(str))

\* The verb %q: the Go-quoted string, double quotes included.
SprintfQ(str) == <<"\"">> \o Escape(str) \o <<"\"">>

DeleteTemplateHead == "mutation{apiAccessDeleteKeys(keys:{ingestKeyIds:"
DeleteTemplateTail == "}){deletedKeys{id}errors{message}}}"

\* The delete template: ingestKeyIds: ["%q"].
DeleteMutation(request) ==
  <<DeleteTemplateHead, "[", "\"">> \o SprintfQ(request.ID)
    \o <<"\"", "]", DeleteTemplateTail>>

-----------------------------------------------------------------------------
(* Upstream replies (what s.client.Run leaves in responseData, or its err).*)

CreatedKey(id) ==
  [ID |-> id, Key |-> <<"s", "e", "c">>, Name |-> <<"n">>, Notes |-> <<"t">>,
   Type |-> "INGEST", IngestType |-> "BROWSER"]

CreateError == [Message |-> "denied", Type |-> "INGEST", AccountID |-> 7,
                ErrorType |-> "FORBIDDEN", IngestType |-> "BROWSER"]

DeleteError == [Message |-> "not found", Type |-> "INGEST"]

\* A transport error, or a reply with its createdKeys and errors lists.
CreateReplies ==
  { [err |-> TRUE, createdKeys |-> <<>>, errors |-> <<>>],
    [err |-> FALSE, createdKeys |-> <<>>, errors |-> <<>>],
    [err |-> FALSE, createdKeys |-> <<>>, errors |-> <<CreateError>>],
    [err |-> FALSE, createdKeys |-> <<CreatedKey(<<"k", "1">>)>>, errors |-> <<>>],
    [err |-> FALSE,
     createdKeys |-> <<CreatedKey(<<"k", "\"">>), CreatedKey(<<"k", "1">>)>>,
     errors |-> <<CreateError>>] }

\* A transport error, or a reply with its deletedKeys and errors lists.
DeleteReplies ==
  { [err |-> TRUE, deletedKeys |-> <<>>, errors |-> <<>>],
    [err |-> FALSE, deletedKeys |-> <<>>, errors |-> <<>>],
    [err |-> FALSE, deletedKeys |-> <<>>, errors |-> <<DeleteError>>],
    [err |-> FALSE, deletedKeys |-> <<[ID |-> <<"k", "1">>]>>, errors |-> <<>>] }

NoReply == [err |-> FALSE, received |-> FALSE]
NoCall == [mutation |-> <<>>, apiKey |-> "", contentType |-> ""]
NoBody == [syntaxOk |-> FALSE]
NoRequest == [err |-> FALSE]

-----------------------------------------------------------------------------
(* The response writer.                                                    *)

NoResponse == [status |-> 0, wroteHeader |-> 0, text |-> <<>>, json |-> <<>>]

\* http.Error(w, msg, code): one WriteHeader(code), then the text.
httpError(msg, code) ==
  [status |-> code, wroteHeader |-> 1, text |-> msg, json |-> <<>>]

\* w.WriteHeader(code) followed by json.NewEncoder(w).Encode(map{name: value}).
\* The encoder writes each field of the value under its json tag.
writeJSON(code, name, value) ==
  [status |-> code, wroteHeader |-> 1, text |-> <<>>, json |-> <<name, value>>]

\* The createdKeys element as json.Encode writes it (struct tags of
\* NewRelicResponse).
EncodeKey(k) ==
  [id |-> k.ID, key |-> k.Key, name |-> k.Name, notes |-> k.Notes,
   type |-> k.Type, ingestType |-> k.IngestType]

\* A handler that returns without having written anything: net/http then
\* sends the reply itself, status 200 and an empty body.
finishRequest(resp) ==
  IF resp.wroteHeader = 0 THEN [resp EXCEPT !.status = StatusOK] ELSE resp

-----------------------------------------------------------------------------
(* State.                                                                  *)

Idle ==
  [handler |-> "none", pc |-> "idle", body |-> NoBody, apiKey |-> "",
   request |-> NoRequest, call |-> NoCall, nCalls |-> 0, reply |-> NoReply,
   resp |-> NoResponse, steps |-> <<>>]

Init ==
  /\ revision \in {1, 2}
  /\ mainpc = "start"
  /\ env \in EnvValues
  /\ s = [client |-> "", apiKey |-> ""]
  /\ req = [r \in Slots |-> Idle]

-----------------------------------------------------------------------------
(* Startup.                                                                *)

\* godotenv.Load(): the variables of .env that the environment does not set
\* yet are added to it; an unreadable file is an error.
godotenvLoad(current, fileKey) == IF current = "" THEN fileKey ELSE current

\* main without the test of lines 395-397.
MissingKey_untested(apiKey) == FALSE

\* main's test of the credential: apiKey == "".
MissingKey(apiKey) == apiKey = ""

\* GetClient(): the client of the fixed endpoint, never an error.
GetClient == [client |-> newRelicGraphQLEndpoint, err |-> FALSE]

\* main of the first revision: no test of the credential, one route.
main1 ==
  /\ revision = 1
  /\ mainpc = "start"
  /\ \E loadErr \in BOOLEAN, fileKey \in EnvValues :
       IF loadErr
       THEN /\ mainpc' = "fatal"
            /\ UNCHANGED <<env, s>>
       ELSE /\ env' = godotenvLoad(env, fileKey)
            /\ s' = [client |-> newRelicGraphQLEndpoint, apiKey |-> ""]
            /\ mainpc' = "serving"
  /\ UNCHANGED <<revision, req>>

\* main of the second revision: log.Fatalf when the credential is missing,
\* otherwise Server{client, apiKey} and both routes.
main ==
  /\ revision = 2
  /\ mainpc = "start"
  /\ \E loadErr \in BOOLEAN, fileKey \in EnvValues :
       LET apiKey == godotenvLoad(env, fileKey) IN
       IF loadErr
       THEN /\ mainpc' = "fatal"
            /\ UNCHANGED <<env, s>>
       ELSE /\ env' = apiKey
            /\ IF MissingKey(apiKey) \/ GetClient.err
               THEN /\ mainpc' = "fatal"
                    /\ UNCHANGED s
               ELSE /\ s' = [client |-> GetClient.client, apiKey |-> apiKey]
                    /\ mainpc' = "serving"
  /\ UNCHANGED <<revision, req>>

\* The routes registered with the mux router.
Routes == IF revision = 1 THEN {"createApiKey1"} ELSE {"createApiKey", "deleteApiKey"}

FirstStep(handler) == IF handler = "createApiKey" THEN "decode" ELSE "getenv"

\* http.ListenAndServe hands a request to its route's handler, in a goroutine
\* of its own.  Slots are taken in order.
Dispatch(r) ==
  /\ mainpc = "serving"
  /\ req[r].pc = "idle"
  /\ IF r = 1 THEN TRUE ELSE req[r - 1].pc # "idle"
  /\ \E handler \in Routes :
       req' = [req EXCEPT ![r].handler = handler,
                          ![r].pc = FirstStep(handler)]
  /\ UNCHANGED <<revision, mainpc, env, s>>

At(r, handler, pc) == req[r].handler = handler /\ req[r].pc = pc

-----------------------------------------------------------------------------
(* createApiKey, second revision (lines 239-318).                          *)

createApiKey_Decode(r) ==
  /\ At(r, "createApiKey", "decode")
  /\ \E body \in CreateBodies :
     LET request == InsertKeyRequest(body) IN
       IF request.err
       THEN req' = [req EXCEPT
                      ![r].body = body, ![r].request = request,
                      ![r].pc = "done",
                      ![r].resp = finishRequest(
                         httpError(<<"Invalid JSON request body">>, StatusBadRequest)),
                      ![r].steps = @ \o <<"decode">>]
       ELSE req' = [req EXCEPT ![r].body = body, ![r].request = request,
                               ![r].pc = "send",
                               ![r].steps = @ \o <<"decode">>]
  /\ UNCHANGED <<revision, mainpc, env, s>>

\* The mutation is built, the headers are set and s.client.Run is entered.
createApiKey_Send(r) ==
  /\ At(r, "createApiKey", "send")
  /\ req' = [req EXCEPT
               ![r].call = [mutation |-> CreateMutation(req[r].request),
                            apiKey |-> s.apiKey,
                            contentType |-> "application/json"],
               ![r].nCalls = @ + 1,
               ![r].pc = "run",
               ![r].steps = @ \o <<"build", "send">>]
  /\ UNCHANGED <<revision, mainpc, env, s>>

\* The relay with the tests of lines 301 and 311 in the other order: upstream
\* errors are reported even when a key was created.
createApiKey_relay_errorsFirst(reply) ==
  IF reply.err
  THEN httpError(<<"Failed to create insert key">>, StatusInternalServerError)
  ELSE IF Len(reply.errors) > 0
  THEN httpError(<<"API returned an error: ", reply.errors>>, StatusBadRequest)
  ELSE IF Len(reply.createdKeys) > 0
  THEN writeJSON(StatusOK, "insert_key", EncodeKey(reply.createdKeys[1]))
  ELSE httpError(<<"No key was created">>, StatusInternalServerError)

\* The relay of a handler that remembers, in state shared by all requests,
\* that a key was created and refuses to report a second one.
createApiKey_relay_remembered(reply) ==
  IF reply.err
  THEN httpError(<<"Failed to create insert key">>, StatusInternalServerError)
  ELSE IF Len(reply.createdKeys) > 0
  THEN IF \E q \in Slots : /\ req[q].pc = "done"
                           /\ req[q].handler = "createApiKey"
                           /\ req[q].resp.json # <<>>
       THEN httpError(<<"No key was created">>, StatusInternalServerError)
       ELSE writeJSON(StatusOK, "insert_key", EncodeKey(reply.createdKeys[1]))
  ELSE IF Len(reply.errors) > 0
  THEN httpError(<<"API returned an error: ", reply.errors>>, StatusBadRequest)
  ELSE httpError(<<"No key was created">>, StatusInternalServerError)

\* The relay of lines 295-317.
createApiKey_relay(reply) ==
  IF reply.err
  THEN httpError(<<"Failed to create insert key">>, StatusInternalServerError)
  ELSE IF Len(reply.createdKeys) > 0
  THEN writeJSON(StatusOK, "insert_key", EncodeKey(reply.createdKeys[1]))
  ELSE IF Len(reply.errors) > 0
  THEN httpError(<<"API returned an error: ", reply.errors>>, StatusBadRequest)
  ELSE httpError(<<"No key was created">>, StatusInternalServerError)

\* Run with a retry: after a transport error the handler sends the call again.
createApiKey_Run_retry(r) ==
  /\ At(r, "createApiKey", "run")
  /\ \E reply \in CreateReplies :
       IF reply.err /\ req[r].nCalls < 2
       THEN req' = [req EXCEPT ![r].reply = reply, ![r].pc = "send"]
       ELSE req' = [req EXCEPT ![r].reply = reply,
                               ![r].pc = "done",
                               ![r].resp = finishRequest(createApiKey_relay(reply)),
                               ![r].steps = @ \o <<"relay">>]
  /\ UNCHANGED <<revision, mainpc, env, s>>

\* s.client.Run returns (a reply or an error) and the handler relays it.
createApiKey_Run(r) ==
  /\ At(r, "createApiKey", "run")
  /\ \E reply \in CreateReplies :
       req' = [req EXCEPT ![r].reply = reply,
                          ![r].pc = "done",
                          ![r].resp = finishRequest(createApiKey_relay(reply)),
                          ![r].steps = @ \o <<"relay">>]
  /\ UNCHANGED <<revision, mainpc, env, s>>

-----------------------------------------------------------------------------
(* createApiKey, first revision (lines 51-140).                            *)

createApiKey1_Getenv(r) ==
  /\ At(r, "createApiKey1", "getenv")
  /\ IF env = ""
     THEN req' = [req EXCEPT
                    ![r].apiKey = env,
                    ![r].pc = "done",
                    ![r].resp = finishRequest(
                       httpError(<<"{\"error\": \"Missing NEW_RELIC_API_KEY\"}">>,
                                 StatusUnauthorized)),
                    ![r].steps = @ \o <<"getenv">>]
     ELSE req' = [req EXCEPT ![r].apiKey = env,
                             ![r].pc = "decode",
                             ![r].steps = @ \o <<"getenv">>]
  /\ UNCHANGED <<revision, mainpc, env, s>>

createApiKey1_Decode(r) ==
  /\ At(r, "createApiKey1", "decode")
  /\ \E body \in CreateBodies :
     LET request == InsertKeyRequest(body) IN
       IF request.err
       THEN req' = [req EXCEPT
                      ![r].body = body, ![r].request = request,
                      ![r].pc = "done",
                      ![r].resp = finishRequest(
                         httpError(<<"{\"error\": \"Invalid JSON request body\"}">>,
                                   StatusBadRequest)),
                      ![r].steps = @ \o <<"decode">>]
       ELSE req' = [req EXCEPT ![r].body = body, ![r].request = request,
                               ![r].pc = "send",
                               ![r].steps = @ \o <<"decode">>]
  /\ UNCHANGED <<revision, mainpc, env, s>>

createApiKey1_Send(r) ==
  /\ At(r, "createApiKey1", "send")
  /\ req' = [req EXCEPT
               ![r].call = [mutation |-> CreateMutation(req[r].request),
                            apiKey |-> req[r].apiKey,
                            contentType |-> "application/json"],
               ![r].nCalls = @ + 1,
               ![r].pc = "run",
               ![r].steps = @ \o <<"build", "send">>]
  /\ UNCHANGED <<revision, mainpc, env, s>>

\* The relay of lines 113-139.
createApiKey1_relay(reply) ==
  IF reply.err
  THEN httpError(<<"{\"error\": \"Failed to create insert key\", \"details\": ",
                   "err.Error()">>, StatusInternalServerError)
  ELSE IF Len(reply.createdKeys) > 0
  THEN writeJSON(StatusOK, "insert_key", EncodeKey(reply.createdKeys[1]))
  ELSE IF Len(reply.errors) > 0
  THEN httpError(<<"API returned an error: ", reply.errors>>, StatusBadRequest)
  ELSE httpError(<<"No key was created">>, StatusInternalServerError)

createApiKey1_Run(r) ==
  /\ At(r, "createApiKey1", "run")
  /\ \E reply \in CreateReplies :
       req' = [req EXCEPT ![r].reply = reply,
                          ![r].pc = "done",
                          ![r].resp = finishRequest(createApiKey1_relay(reply)),
                          ![r].steps = @ \o <<"relay">>]
  /\ UNCHANGED <<revision, mainpc, env, s>>

-----------------------------------------------------------------------------
(* deleteApiKey (lines 321-379).                                           *)

\* os.Getenv("NEW_RELIC_API_KEY") on every request; 401 when it is empty.
deleteApiKey_Getenv(r) ==
  /\ At(r, "deleteApiKey", "getenv")
  /\ IF env = ""
     THEN req' = [req EXCEPT
                    ![r].apiKey = env,
                    ![r].pc = "done",
                    ![r].resp = finishRequest(
                       httpError(<<"{\"error\": \"Missing NEW_RELIC_API_KEY\"}">>,
                                 StatusUnauthorized)),
                    ![r].steps = @ \o <<"getenv">>]
     ELSE req' = [req EXCEPT ![r].apiKey = env,
                             ![r].pc = "decode",
                             ![r].steps = @ \o <<"getenv">>]
  /\ UNCHANGED <<revision, mainpc, env, s>>

\* Lines 330-335: on a decode error or an empty id the handler logs and
\* returns; it writes nothing to w.
deleteApiKey_Decode(r) ==
  /\ At(r, "deleteApiKey", "decode")
  /\ \E body \in DeleteBodies :
     LET request == DeleteKeyRequest(body) IN
       IF request.err \/ request.ID = <<>>
       THEN req' = [req EXCEPT ![r].body = body, ![r].request = request,
                               ![r].pc = "done",
                               ![r].resp = finishRequest(req[r].resp),
                               ![r].steps = @ \o <<"decode">>]
       ELSE req' = [req EXCEPT ![r].body = body, ![r].request = request,
                               ![r].pc = "send",
                               ![r].steps = @ \o <<"decode">>]
  /\ UNCHANGED <<revision, mainpc, env, s>>

deleteApiKey_Send(r) ==
  /\ At(r, "deleteApiKey", "send")
  /\ req' = [req EXCEPT
               ![r].call = [mutation |-> DeleteMutation(req[r].request),
                            apiKey |-> req[r].apiKey,
                            contentType |-> "application/json"],
               ![r].nCalls = @ + 1,
               ![r].pc = "run",
               ![r].steps = @ \o <<"build", "send">>]
  /\ UNCHANGED <<revision, mainpc, env, s>>

\* The relay of lines 359-378.  With upstream errors the handler logs and
\* returns without writing; otherwise it reports the id of the request.
deleteApiKey_relay(resp, request, reply) ==
  IF reply.err
  THEN httpError(<<"{\"error\": \"Failed to delete key\", \"details\": ",
                   "err.Error()">>, StatusInternalServerError)
  ELSE IF Len(reply.errors) > 0
  THEN resp
  ELSE writeJSON(StatusOK, "deleted_key", request.ID)

deleteApiKey_Run(r) ==
  /\ At(r, "deleteApiKey", "run")
  /\ \E reply \in DeleteReplies :
       req' = [req EXCEPT
                 ![r].reply = reply,
                 ![r].pc = "done",
                 ![r].resp = finishRequest(
                    deleteApiKey_relay(req[r].resp, req[r].request, reply)),
                 ![r].steps = @ \o <<"relay">>]
  /\ UNCHANGED <<revision, mainpc, env, s>>

-----------------------------------------------------------------------------
(* The environment of the process.                                         *)

\* NEW_RELIC_API_KEY is changed while the server runs (os.Setenv, os.Unsetenv).
\* Nothing in main.go does so; the handlers that call os.Getenv would see it.
Setenv ==
  /\ mainpc = "serving"
  /\ \E v \in EnvValues \ {env} : env' = v
  /\ UNCHANGED <<revision, mainpc, s, req>>

-----------------------------------------------------------------------------

Next ==
  \/ main1
  \/ main
  \/ \E r \in Slots : Dispatch(r)
  \/ \E r \in Slots : createApiKey_Decode(r)
  \/ \E r \in Slots : createApiKey_Send(r)
  \/ \E r \in Slots : createApiKey_Run(r)
  \/ \E r \in Slots : createApiKey1_Getenv(r)
  \/ \E r \in Slots : createApiKey1_Decode(r)
  \/ \E r \in Slots : createApiKey1_Send(r)
  \/ \E r \in Slots : createApiKey1_Run(r)
  \/ \E r \in Slots : deleteApiKey_Getenv(r)
  \/ \E r \in Slots : deleteApiKey_Decode(r)
  \/ \E r \in Slots : deleteApiKey_Send(r)
  \/ \E r \in Slots : deleteApiKey_Run(r)

\* The program as written: the environment is not changed after startup.
Spec == Init /\ [][Next]_vars

NextEnv == Next \/ Setenv

\* The program in an environment whose NEW_RELIC_API_KEY changes at run time.
SpecEnv == Init /\ [][NextEnv]_vars

-----------------------------------------------------------------------------
(* Claims.                                                                 *)

Done(r) == req[r].pc = "done"
Handled(r, handlers) == req[r].handler \in handlers
Sent(r) == req[r].nCalls > 0
\* s.client.Run has returned to the handler of r.
Returned(r) == Sent(r) /\ req[r].pc = "done"
Decoded(r) == \E i \in 1..Len(req[r].steps) : req[r].steps[i] = "decode"
ErrorStatus(code) == code >= 400 /\ code <= 599

\* The createdKeys or deletedKeys list of the reply r received.
ReplyKeys(r) ==
  IF req[r].handler = "deleteApiKey"
  THEN req[r].reply.deletedKeys
  ELSE req[r].reply.createdKeys

Creates == {"createApiKey", "createApiKey1"}
Handlers == Creates \cup {"deleteApiKey"}

\* C1: in both handlers, an upstream reply without transport error that
\* carries errors and no created or deleted key is answered with a 4xx or 5xx
\* status, never 200.
C1_UpstreamErrorsGetErrorStatus ==
  \A r \in Slots :
    ( /\ Handled(r, Handlers)
      /\ Returned(r)
      /\ ~req[r].reply.err
      /\ Len(req[r].reply.errors) > 0
      /\ Len(ReplyKeys(r)) = 0 )
    => ErrorStatus(req[r].resp.status)

\* The case of C1 happens in deleteApiKey.
C1_Case ==
  \E r \in Slots :
    /\ Handled(r, {"deleteApiKey"})
    /\ Returned(r)
    /\ ~req[r].reply.err
    /\ Len(req[r].reply.errors) > 0

\* C6: deleteApiKey answers a body that does not decode, or that decodes with
\* an empty id, with status 400 and sends no upstream call.
C6_DeleteRejectsInvalidWith400 ==
  \A r \in Slots :
    ( /\ Handled(r, {"deleteApiKey"})
      /\ Done(r)
      /\ Decoded(r)
      /\ (req[r].request.err \/ req[r].request.ID = <<>>) )
    => (req[r].resp.status = StatusBadRequest /\ req[r].nCalls = 0)

\* C10 (the part a finite run decides): on every path through a handler the
\* status code has been written exactly once when the handler returns.
C10_StatusWrittenExactlyOnce ==
  \A r \in Slots : Done(r) => req[r].resp.wroteHeader = 1

\* The key j of a response body has the fields of the upstream key k.
SameKey(j, k) ==
  /\ j.id = k.ID
  /\ j.key = k.Key
  /\ j.name = k.Name
  /\ j.notes = k.Notes
  /\ j.type = k.Type
  /\ j.ingestType = k.IngestType

\* C4: a 200 with deleted_key is given only when the reply's deletedKeys holds
\* that id; a 200 with insert_key carries a key of the reply's createdKeys,
\* fields unchanged.
C4_ResultVerbatim ==
  \A r \in Slots :
    ( /\ Done(r)
      /\ req[r].resp.status = StatusOK
      /\ req[r].resp.json # <<>> )
    => /\ Returned(r)
       /\ ~req[r].reply.err
       /\ Handled(r, {"deleteApiKey"}) =>
            /\ req[r].resp.json[1] = "deleted_key"
            /\ \E i \in 1..Len(req[r].reply.deletedKeys) :
                 req[r].reply.deletedKeys[i].ID = req[r].resp.json[2]
       /\ Handled(r, Creates) =>
            /\ req[r].resp.json[1] = "insert_key"
            /\ \E i \in 1..Len(req[r].reply.createdKeys) :
                 SameKey(req[r].resp.json[2], req[r].reply.createdKeys[i])

\* The ingestKeyIds argument of a delete mutation: what stands between the
\* head and the tail of the template.
IngestKeyIdsArg(mutation) == SubSeq(mutation, 2, Len(mutation) - 1)

\* C8: the mutation of deleteApiKey is the template with ingestKeyIds a list
\* of one string literal, the id in exactly one pair of double quotes.
C8_DeleteMutationQuotesIdOnce ==
  \A r \in Slots :
    (Handled(r, {"deleteApiKey"}) /\ Sent(r)) =>
      /\ Head(req[r].call.mutation) = DeleteTemplateHead
      /\ req[r].call.mutation[Len(req[r].call.mutation)] = DeleteTemplateTail
      /\ IngestKeyIdsArg(req[r].call.mutation)
           = <<"[", "\"">> \o req[r].request.ID \o <<"\"", "]">>

\* C3: in the second revision the API-Key header of every upstream call is
\* the credential main read at startup (Server.apiKey), whatever the
\* environment holds when the request is served.
C3_HeaderIsStartupCredential ==
  revision = 2 =>
    \A r \in Slots : Sent(r) => req[r].call.apiKey = s.apiKey


RECURSIVE IsPrefix(_, _)
IsPrefix(p, q) ==
  IF p = <<>> THEN TRUE
  ELSE IF q = <<>> THEN FALSE
  ELSE Head(p) = Head(q) /\ IsPrefix(Tail(p), Tail(q))

IsPipelineStep(x) == x \in {"decode", "build", "send", "relay"}

\* The steps r has taken, the reading of the credential left out.
Pipeline(r) == SelectSeq(req[r].steps, IsPipelineStep)

\* The handler of r has written a success: WriteHeader(200) and a JSON body.
RelayedSuccess(r) ==
  /\ req[r].resp.wroteHeader > 0
  /\ req[r].resp.status = StatusOK

C7_CreatePriority ==
  \A r \in Slots :
    /\ Handled(r, {"createApiKey"}) =>
         /\ req[r].resp.status # StatusUnauthorized
         /\ Done(r) => Decoded(r)
    /\ (Handled(r, Creates) /\ Done(r) /\ Decoded(r)) =>
         IF req[r].request.err
         THEN req[r].resp.status = StatusBadRequest /\ req[r].nCalls = 0
         ELSE /\ Returned(r)
              /\ IF req[r].reply.err
                 THEN req[r].resp.status = StatusInternalServerError
                 ELSE IF Len(req[r].reply.createdKeys) > 0
                 THEN /\ req[r].resp.status = StatusOK
                      /\ req[r].resp.json[1] = "insert_key"
                      /\ SameKey(req[r].resp.json[2], req[r].reply.createdKeys[1])
                 ELSE IF Len(req[r].reply.errors) > 0
                 THEN req[r].resp.status = StatusBadRequest
                 ELSE req[r].resp.status = StatusInternalServerError

\* createApiKey has answered 200 to a reply with created keys and errors.
C7_Case ==
  \E r \in Slots :
    /\ Handled(r, {"createApiKey"})
    /\ Returned(r)
    /\ ~req[r].reply.err
    /\ Len(req[r].reply.createdKeys) > 1
    /\ Len(req[r].reply.errors) > 0
    /\ req[r].resp.status = StatusOK

\* C5: the response to a request (and the call made for it) is decided by
\* its handler, its body and the reply to its own call: two requests of one
\* run that agree on these get the same response, whatever was served
\* before or at the same time.
C5_NoStateAcrossRequests ==
  \A a, b \in Slots :
    ( /\ Handled(a, Handlers)
      /\ req[a].handler = req[b].handler
      /\ req[a].body = req[b].body )
    => /\ (Sent(a) /\ Sent(b)) => req[a].call = req[b].call
       /\ (Done(a) /\ Done(b) /\ req[a].reply = req[b].reply) =>
            req[a].resp = req[b].resp

\* Two create requests with the same body and the same reply have both been
\* answered 200.
C5_Case ==
  \E a, b \in Slots :
    /\ a # b
    /\ Handled(a, {"createApiKey"}) /\ Handled(b, {"createApiKey"})
    /\ Returned(a) /\ Returned(b)
    /\ req[a].body = req[b].body
    /\ req[a].reply = req[b].reply
    /\ req[a].resp.status = StatusOK

\* C9: no upstream call carries an empty API-Key.  The second revision serves
\* only with a credential read at startup; a handler that reads an empty
\* credential answers 401 and returns, the body unread and no call made.
C9_NoCallWithoutCredential ==
  /\ \A r \in Slots : Sent(r) => req[r].call.apiKey # ""
  /\ (revision = 2 /\ mainpc = "serving") => s.apiKey # ""
  /\ \A r \in Slots : req[r].pc # "idle" => mainpc = "serving"
  /\ \A r \in Slots :
       (req[r].steps # <<>> /\ Head(req[r].steps) = "getenv" /\ req[r].apiKey = "")
       => /\ Done(r)
          /\ req[r].resp.status = StatusUnauthorized
          /\ req[r].resp.wroteHeader = 1
          /\ req[r].steps = <<"getenv">>
          /\ req[r].body = NoBody
          /\ req[r].nCalls = 0

\* In the second revision, started with a credential, deleteApiKey has found
\* the credential empty and answered 401, and createApiKey has sent a call.
C9_Case ==
  /\ revision = 2
  /\ \E a, b \in Slots :
       /\ Handled(a, {"deleteApiKey"}) /\ Done(a)
       /\ req[a].resp.status = StatusUnauthorized
       /\ Handled(b, {"createApiKey"}) /\ Sent(b)

====
